---------------------------- MODULE Spec2Model ----------------------------
(***************************************************************************)
(* A model of the SMC option scanner (src/smc_logic.py): the scan          *)
(* orchestrator run_smc_scan, the caches it shares between invocations     *)
(* (the /tmp gz files and the module-level _TOKEN_CACHE), and the          *)
(* Greeks-gated trade-type resolver _apply_greeks_gates, the strike ring,  *)
(* the final ranking and the implied-volatility solver called on their     *)
(* own, and the web application's /callback and /api/execute (src/app.py). *)
(*                                                                         *)
(* Units.  Premiums, strikes and the budget are whole rupees; tp/sl are    *)
(* paise (1/100 rupee); iv and delta are hundredths (0.12 -> 12); gamma    *)
(* is in 1/10000 (0.02 -> 200); theta per day is in paise; scores are in   *)
(* 1e-6 (the code rounds the score to 6 decimals).  Python's None is the   *)
(* number NoneV, which no datum equals.  Dates are day offsets from today. *)
(*                                                                         *)
(* Abstractions.  The Black-Scholes solver (implied_vol, bs_greeks) and    *)
(* the indicator library (_ema, _rsi, _pivots) are floating-point code;    *)
(* the market data carries their outputs: a history carries the indicator  *)
(* values the library derives from it, a quoted contract carries the       *)
(* implied volatility and Greeks the solver derives from its price.  The   *)
(* solver's own control flow is modelled apart, over a rising pricing      *)
(* error on a fixed-point grid of volatilities.                            *)
(***************************************************************************)
EXTENDS Integers, Sequences, FiniteSets, TLC

VARIABLES
    ALLOW_IF_NO_GREEKS, \* smc_logic.py:41, read from the environment at import
    mkt,                \* what the Market Data Provider answers (fixed per run)
    threads,            \* how many scans the web server runs at once
    nreq,               \* scans begun so far
    nfo_file,           \* /tmp/nfo_slim.json.gz
    nse_file,           \* /tmp/nse_slim.json.gz
    TOKEN_CACHE,        \* _TOKEN_CACHE: symbol -> NSE instrument_token
    pc,                 \* per scan: where run_smc_scan stands
    out,                \* per scan: the result dict being built
    loc,                \* per scan: the locals of run_smc_scan
    gate_in,            \* arguments of a direct call of _apply_greeks_gates
    gate_out,           \* its return value
    ring_call,          \* a direct call of the ATM choice and _ring, and its value
    rank_call,          \* a direct call of the final ranking, and its value
    iv_call,            \* a call of implied_vol: its arguments, locals and value
    ALLOW_ORDER_EXEC,   \* app.py:21, read from the environment at import
    ALLOW_AMO,          \* app.py:30, read from the environment at import
    access_token,       \* app.py:42, set by /callback
    sessions,           \* the sessions the broker has granted (generate_session)
    nexec,              \* /api/execute requests begun so far
    req,                \* the /api/execute request being served: its locals
    orders,             \* the place_order calls of the latest /api/execute request
    resp                \* the last response of /callback or /api/execute

\* the state of the direct calls of ring, ranking and implied_vol
callvars == <<ring_call, rank_call, iv_call>>

\* the state of the web application (app.py)
appvars == <<ALLOW_ORDER_EXEC, ALLOW_AMO, access_token, sessions, nexec, req,
             orders, resp>>

\* the state of the scanner (smc_logic.py)
scanvars == <<ALLOW_IF_NO_GREEKS, mkt, threads, nreq, nfo_file, nse_file,
              TOKEN_CACHE, pc, out, loc, gate_in, gate_out>>

vars == <<scanvars, callvars, appvars>>

-----------------------------------------------------------------------------
(* Bounds of the model *)
MaxScans == 2
MaxStrikes == 12
MaxScored == 52
MaxRequests == 2
MaxLogins == 2

ScanIds == 1..MaxScans

(* Program constants *)
BUDGET == 10000
RING_STRIKES == 4
MAX_PICKS == 50
QUOTE_BATCH == 60
MIN_BARS == 15
IV_MIN_LONG == 12
IV_MAX_LONG == 45
IV_MIN_SHORT == 28
DELTA_MIN_CALL == 30
DELTA_MAX_CALL == 65
DELTA_MIN_PUT == 30
DELTA_MAX_PUT == 65
GAMMA_MAX == 200
THETA_MAX_PCT == 2
TODAY == 0
IV_LO == 1
IV_HI == 50000
IV_HI_CAP == 100000
IV_EXPAND_TRIES == 10
IV_MAX_ITER == 60

NoneV == -999999

\* NIFTY50 (smc_logic.py:46-52), cut down to two underlyings, in list order
NIFTY50 == <<"A", "B">>

Range(f) == {f[x] : x \in DOMAIN f}

Abs(x) == IF x < 0 THEN -x ELSE x

Min2(a, b) == IF a < b THEN a ELSE b

Max2(a, b) == IF a > b THEN a ELSE b

Truthy(x) == x # NoneV /\ x # 0

\* the first k elements of s
Take(s, k) == SubSeq(s, 1, Min2(k, Len(s)))

RECURSIVE SetToSortedSeq(_)
\* sorted(S) for a finite set of integers
SetToSortedSeq(S) ==
    IF S = {} THEN <<>>
    ELSE LET m == CHOOSE x \in S : \A y \in S : x <= y
         IN  <<m>> \o SetToSortedSeq(S \ {m})

\* the first index of s whose element minimises Key, as Python's min(..., key=)
ArgMinFirst(s, Key(_)) ==
    CHOOSE i \in 1..Len(s) :
        /\ \A j \in 1..Len(s) : Key(s[i]) <= Key(s[j])
        /\ \A j \in 1..(i - 1) : Key(s[j]) > Key(s[i])

-----------------------------------------------------------------------------
(* Utilities of smc_logic.py *)

\* _slim_rows_nfo: keep the option rows of the allowed underlyings
slim_rows_nfo(raw, allow_names) ==
    LET Keep(r) == r.name \in Range(allow_names) /\ r.instrument_type \in {"CE", "PE"}
    IN  SelectSeq(raw, Keep)

RECURSIVE SlimNseFrom(_, _, _, _)
SlimNseFrom(raw, i, need, acc) ==
    IF i > Len(raw) THEN acc
    ELSE IF raw[i].tradingsymbol \in need
         THEN LET acc2 == Append(acc, raw[i])
              IN  IF Len(acc2) = Cardinality(need) THEN acc2
                  ELSE SlimNseFrom(raw, i + 1, need, acc2)
         ELSE SlimNseFrom(raw, i + 1, need, acc)

\* _slim_rows_nse: keep the rows of the wanted symbols, stop once as many are kept
slim_rows_nse(raw, allow_syms) == SlimNseFrom(raw, 1, Range(allow_syms), <<>>)

\* json.dump of the slim rows: a date (an expiry) is not JSON serialisable, and a
\* value that compares with date.today() is a date; None, strings, numbers are
Dumpable(rows) == \A i \in 1..Len(rows) :
    ("expiry" \in DOMAIN rows[i]) => rows[i].expiry = NoneV

\* _nearest_expiry: the first expiry on or after today, else the latest, else None
nearest_expiry(rows) ==
    LET exps == SetToSortedSeq({rows[i].expiry : i \in {j \in 1..Len(rows) : rows[j].expiry # NoneV}})
        fut == {i \in 1..Len(exps) : exps[i] >= TODAY}
    IN  IF fut # {} THEN exps[CHOOSE i \in fut : \A j \in fut : i <= j]
        ELSE IF Len(exps) > 0 THEN exps[Len(exps)]
        ELSE NoneV

\* _ring: the strikes within `steps` places of atm in the sorted strike list
ring(strikes, atm, steps) ==
    LET Dist(k) == Abs(k - atm)
        hits == {k \in 1..Len(strikes) : strikes[k] = atm}
        i  == IF hits # {} THEN CHOOSE k \in hits : \A j \in hits : k <= j
              ELSE ArgMinFirst(strikes, Dist)
        lo == Max2(1, i - steps)
        hi == Min2(Len(strikes), i + steps)
    IN  {strikes[k] : k \in lo..hi}

\* atm_of that passes the price itself on as the ATM
atm_of_RawPx(strikes, px) ==
    IF Truthy(px) THEN px ELSE strikes[(Len(strikes) \div 2) + 1]

\* the ATM strike (smc_logic.py:394): nearest to px, or the median without a px
atm_of(strikes, px) ==
    LET Dist(k) == Abs(k - px)
    IN  IF Truthy(px) THEN strikes[ArgMinFirst(strikes, Dist)]
        ELSE strikes[(Len(strikes) \div 2) + 1]

\* round() of a non-negative ratio n/d: to nearest, ties to even
RoundHalfEven(n, d) ==
    LET q == n \div d
        r == n % d
    IN  IF 2 * r < d THEN q
        ELSE IF 2 * r > d THEN q + 1
        ELSE IF q % 2 = 0 THEN q ELSE q + 1

\* _tick_round with tick = 0.05: paise in, paise out
tick_round(paise) == 5 * RoundHalfEven(paise, 5)

\* _score, in 1e-6: 0.6*log1p(volume) - 0.3*spread + 0.1*affordable.  q.liq is
\* log1p(volume) in 1/1000
score(q, lot, ltp, trade_type) ==
    LET liq == IF Truthy(q.liq) THEN q.liq ELSE 0
        bb  == q.bid
        ba  == q.ask
        spr == IF Truthy(bb) /\ Truthy(ba) /\ Truthy(ltp)
               THEN (1000000 * (ba - bb)) \div ltp ELSE 80000
        aff == IF trade_type = "LONG" /\ Truthy(ltp) /\ ltp * lot <= BUDGET
               THEN 1000000 ELSE 0
    IN  (600 * liq) - ((3 * spr) \div 10) + (aff \div 10)

\* _trade_bias_from_ta
trade_bias_from_ta(side, ema5, ema10, px, r1, s1, rsi) ==
    LET overbought == rsi # NoneV /\ rsi >= 70
        oversold   == rsi # NoneV /\ rsi <= 30
        bull == Truthy(ema5) /\ Truthy(ema10) /\ ema5 > ema10 /\ px > r1
                /\ (rsi = NoneV \/ rsi < 70)
        bear == Truthy(ema5) /\ Truthy(ema10) /\ ema5 < ema10 /\ px < s1
                /\ (rsi = NoneV \/ rsi > 30)
    IN  IF side = "CE"
        THEN IF bull /\ ~overbought
             THEN [type |-> "LONG", rationale |-> "Bullish confirmation"]
             ELSE [type |-> "SHORT", rationale |-> "Bullish weak/exhausted"]
        ELSE IF bear /\ ~oversold
             THEN [type |-> "LONG", rationale |-> "Bearish confirmation"]
             ELSE [type |-> "SHORT", rationale |-> "Bearish weak/exhausted"]

-----------------------------------------------------------------------------
(* Greek-aware SMC: _apply_greeks_gates *)

NoGreeks == [delta |-> NoneV, gamma |-> NoneV, theta |-> NoneV,
             vega |-> NoneV, rho |-> NoneV]

\* greeks.get(k) or 0.0
OrZero(x) == IF x = NoneV THEN 0 ELSE x

\* theta_bleed_pct > THETA_MAX_PCT, with theta_bleed_pct = abs(theta)/max(ltp, 1e-9)
ThetaBleedExceeds(theta, ltp) ==
    IF ltp > 0 THEN Abs(theta) > THETA_MAX_PCT * ltp ELSE theta # 0

\* LongFails with the IV band's ends excluded and the theta gate forgotten
LongFails_Loose(side, ltp, iv, greeks) ==
    LET delta == OrZero(greeks.delta)
        gamma == OrZero(greeks.gamma)
        f1 == IF ~(IV_MIN_LONG < iv /\ iv < IV_MAX_LONG) THEN <<"IV">> ELSE <<>>
        f2 == IF ~(DELTA_MIN_CALL <= Abs(delta) /\ Abs(delta) <= DELTA_MAX_CALL)
              THEN <<"DELTA">> ELSE <<>>
        f3 == IF gamma > GAMMA_MAX THEN <<"GAMMA">> ELSE <<>>
    IN  f1 \o f2 \o f3

\* the gates a base LONG fails, in the order the code appends them (297-313)
LongFails(side, ltp, iv, greeks) ==
    LET delta == OrZero(greeks.delta)
        gamma == OrZero(greeks.gamma)
        theta == OrZero(greeks.theta)
        f1 == IF ~(IV_MIN_LONG <= iv /\ iv <= IV_MAX_LONG) THEN <<"IV">> ELSE <<>>
        f2 == IF side = "CE"
              THEN IF ~(DELTA_MIN_CALL <= delta /\ delta <= DELTA_MAX_CALL)
                   THEN <<"DELTA">> ELSE <<>>
              ELSE IF ~(DELTA_MIN_PUT <= Abs(delta) /\ Abs(delta) <= DELTA_MAX_PUT)
                   THEN <<"DELTA">> ELSE <<>>
        f3 == IF gamma > GAMMA_MAX THEN <<"GAMMA">> ELSE <<>>
        f4 == IF ThetaBleedExceeds(theta, ltp) THEN <<"THETA">> ELSE <<>>
    IN  f1 \o f2 \o f3 \o f4

\* the gates a base SHORT fails (320-325)
ShortFails(iv, greeks) ==
    LET gamma == OrZero(greeks.gamma)
        f1 == IF iv < IV_MIN_SHORT THEN <<"IV">> ELSE <<>>
        f2 == IF gamma > GAMMA_MAX THEN <<"GAMMA">> ELSE <<>>
    IN  f1 \o f2

\* GreeksMissing with the policy switch ignored
GreeksMissing_AlwaysAllowed(base_trade_type) ==
    [final |-> base_trade_type, note |-> "Greeks missing (allowed)",
     fails |-> <<>>, passed |-> TRUE]

\* the missing-Greeks policy (282-285)
GreeksMissing(base_trade_type) ==
    IF ALLOW_IF_NO_GREEKS
    THEN [final |-> base_trade_type, note |-> "Greeks missing (allowed)",
          fails |-> <<>>, passed |-> TRUE]
    ELSE [final |-> IF base_trade_type = "LONG" THEN "SHORT" ELSE base_trade_type,
          note |-> "Greeks missing (blocked long)", fails |-> <<>>, passed |-> FALSE]

\* the verdict on a base LONG whose Greeks are known (315-318)
LongVerdict(fails) ==
    IF fails = <<>>
    THEN [final |-> "LONG", note |-> "Greeks ok", fails |-> <<>>, passed |-> TRUE]
    ELSE [final |-> "SHORT", note |-> "Greeks fail", fails |-> fails, passed |-> FALSE]

\* ShortVerdict that upgrades a short whose gates fail
ShortVerdict_Flips(fails) ==
    IF fails = <<>>
    THEN [final |-> "SHORT", note |-> "Greeks favor short", fails |-> <<>>,
          passed |-> TRUE]
    ELSE [final |-> "LONG", note |-> "Weak short (Greeks fail)", fails |-> fails,
          passed |-> FALSE]

\* the verdict on a base SHORT whose Greeks are known (327-331)
ShortVerdict(fails) ==
    IF fails = <<>>
    THEN [final |-> "SHORT", note |-> "Greeks favor short", fails |-> <<>>,
          passed |-> TRUE]
    ELSE [final |-> "SHORT", note |-> "Weak short (Greeks fail)", fails |-> fails,
          passed |-> FALSE]

\* _apply_greeks_gates: (final_trade_type, reason_suffix, passed); the reason's
\* list of failing gates is kept apart from its text
apply_greeks_gates(side, base_trade_type, ltp, iv, greeks) ==
    IF iv = NoneV \/ greeks.delta = NoneV
    THEN GreeksMissing(base_trade_type)
    ELSE IF base_trade_type = "LONG"
         THEN LongVerdict(LongFails(side, ltp, iv, greeks))
         ELSE ShortVerdict(ShortFails(iv, greeks))

-----------------------------------------------------------------------------
(* The Market Data Provider's data *)

Row(ts, nm, it, k, e, lot) ==
    [tradingsymbol |-> ts, name |-> nm, instrument_type |-> it,
     strike |-> k, expiry |-> e, lot_size |-> lot]

NseRow(ts, tok) == [tradingsymbol |-> ts, instrument_token |-> tok]

RawNse == <<NseRow("Z", 99), NseRow("A", 11), NseRow("B", 12)>>

\* raw NFO dumps: an option outside the universe, a future, the near expiry's
\* contracts of A and B, and a far expiry's contract
RawMain == <<Row("Z10CE", "Z", "CE", 10, 7, 5), Row("AFUT", "A", "FUT", NoneV, 7, 25),
             Row("A100CE", "A", "CE", 100, 7, 25), Row("A100PE", "A", "PE", 100, 7, 25),
             Row("B50CE", "B", "CE", 50, 7, NoneV), Row("B50PE", "B", "PE", 50, 35, 10)>>

RawOutside == <<Row("Z10CE", "Z", "CE", 10, 7, 5), Row("AFUT", "A", "FUT", NoneV, 7, 25)>>

RawNoExpiry == <<Row("A100CE", "A", "CE", 100, NoneV, 25)>>

\* every listed row of the underlying lacks a strike: no ring, no candidate
RawNoStrike == <<Row("A0CE", "A", "CE", NoneV, 7, 25)>>

\* a contract listed with strike 0
RawZeroStrike == <<Row("A0PE", "A", "PE", 0, 7, 25)>>

Bars(n, e5, e10, rsi, r1, s1, px) ==
    [kind |-> "bars", n |-> n, ema5 |-> e5, ema10 |-> e10, rsi |-> rsi,
     r1 |-> r1, s1 |-> s1, px |-> px]

HRaise     == [Bars(0, 0, 0, 0, 0, 0, 0) EXCEPT !.kind = "raise"]
HMalformed == [Bars(MIN_BARS, 0, 0, 0, 0, 0, 0) EXCEPT !.kind = "malformed"]
HEmpty     == Bars(0, 0, 0, 0, 0, 0, 0)
HShort     == Bars(MIN_BARS - 1, 105, 100, 60, 101, 95, 102)
HBull      == Bars(MIN_BARS, 105, 100, 60, 101, 95, 102)
HBear      == Bars(MIN_BARS, 95, 100, 40, 105, 99, 98)
HFlat      == Bars(MIN_BARS + 5, 100, 100, 50, 105, 95, 100)
HBullB     == Bars(MIN_BARS, 52, 50, 60, 51, 48, 52)
HShortB    == Bars(3, 52, 50, 60, 51, 48, 52)

\* enough bars, the last close 0
HZeroPx    == Bars(MIN_BARS, 105, 100, 60, 101, 95, 0)

HistPoolA == {HRaise, HMalformed, HEmpty, HShort, HBull, HBear, HFlat}
HistPoolB == {HShortB, HBullB}

HasTA(h) == h.kind = "bars" /\ h.n >= MIN_BARS

Quote(kind, ltp, liq, bid, ask, iv, d, g, t) ==
    [kind |-> kind, last_price |-> ltp, liq |-> liq, bid |-> bid, ask |-> ask,
     iv |-> iv,
     greeks |-> IF iv = NoneV THEN NoGreeks
                ELSE [delta |-> d, gamma |-> g, theta |-> t, vega |-> 10, rho |-> 1]]

\* quotes.get(sym) or {}: every field absent
EmptyQuote == Quote("missing", NoneV, NoneV, NoneV, NoneV, NoneV, NoneV, NoneV, NoneV)

QMalformed == [EmptyQuote EXCEPT !.kind = "malformed"]

\* what the provider may answer for a contract of side `side`
QuotePool(side) ==
    LET sg == IF side = "CE" THEN 1 ELSE -1
    IN  { EmptyQuote,
          Quote("ok", 50, 6909, 49, 51, NoneV, NoneV, NoneV, NoneV),
          Quote("ok", 50, 6909, 49, 51, 30, sg * 50, 100, -50),
          Quote("ok", 500, 4615, NoneV, NoneV, 30, sg * 50, 100, -500),
          Quote("ok", 50, 2398, 48, 52, 50, sg * 50, 100, -50),
          Quote("ok", 50, 0, 49, 50, 10, sg * 80, 300, -200) }

QuotePoolB ==
    { EmptyQuote, QMalformed,
      Quote("ok", 50, 6909, 49, 51, 30, 50, 100, -50),
      Quote("ok", 3, 9210, 2, 4, 40, 35, 150, -5) }

QPoolFor(h, pool) == IF HasTA(h) THEN pool ELSE {EmptyQuote}

Market(instr, nfo, hA, hB, qraise, q1, q2, q3) ==
    [instr |-> instr, nfo |-> nfo, nse |-> RawNse,
     hist |-> (11 :> hA) @@ (12 :> hB),
     quote_raises |-> qraise,
     quote |-> ("NFO:A100CE" :> q1) @@ ("NFO:A100PE" :> q2) @@ ("NFO:B50CE" :> q3)]

\* the instrument dump fails, is empty, holds nothing of the universe, holds no
\* expiry, or holds no strike
HardMarkets ==
    { Market("raise", <<>>, HEmpty, HShortB, FALSE, EmptyQuote, EmptyQuote, EmptyQuote),
      Market("ok", <<>>, HEmpty, HShortB, FALSE, EmptyQuote, EmptyQuote, EmptyQuote),
      Market("ok", RawOutside, HEmpty, HShortB, FALSE, EmptyQuote, EmptyQuote, EmptyQuote),
      Market("ok", RawNoExpiry, HBull, HShortB, FALSE, EmptyQuote, EmptyQuote, EmptyQuote),
      Market("ok", RawNoStrike, HBull, HShortB, FALSE, EmptyQuote, EmptyQuote, EmptyQuote) }

MainMarkets ==
    { Market("ok", RawMain, hA, hB, FALSE, q1, q2, q3) :
        <<hA, hB, q1, q2, q3>> \in
          UNION { UNION { {hA} \X {hB} \X QPoolFor(hA, QuotePool("CE"))
                            \X QPoolFor(hA, QuotePool("PE")) \X QPoolFor(hB, QuotePoolB)
                          : hB \in HistPoolB }
                  : hA \in HistPoolA } }

\* the quote request itself fails
QuoteDownMarkets ==
    { Market("ok", RawMain, hA, HBullB, TRUE, q, q, q) :
        hA \in {HBull, HShort}, q \in {Quote("ok", 50, 6909, 49, 51, 30, 50, 100, -50)} }

\* a quoted contract whose underlying's last close is 0, or whose strike is 0
DegenerateMarkets ==
    LET q == Quote("ok", 50, 6909, 49, 51, 30, 50, 100, -50)
    IN  { Market("ok", RawMain, HZeroPx, HShortB, FALSE, q, q, EmptyQuote),
          [Market("ok", RawZeroStrike, HBear, HShortB, FALSE, q, q, EmptyQuote)
             EXCEPT !.quote = ("NFO:A0PE" :> q)] }

Markets == HardMarkets \cup MainMarkets \cup QuoteDownMarkets \cup DegenerateMarkets

\* the markets checked under two scans in flight at once
ConcMarkets ==
    HardMarkets \cup QuoteDownMarkets \cup
    { m \in MainMarkets :
        /\ m.quote["NFO:A100PE"] = EmptyQuote
        /\ m.quote["NFO:A100CE"].iv \in {NoneV, 30}
        /\ m.quote["NFO:A100CE"].last_price \in {NoneV, 50} }

-----------------------------------------------------------------------------
(* The pure parts of run_smc_scan *)

RECURSIVE FirstSeen(_, _, _)
\* the distinct names of rows, in order of first appearance (dict insertion order)
FirstSeen(rows, i, acc) ==
    IF i > Len(rows) THEN acc
    ELSE IF rows[i].name \in Range(acc) THEN FirstSeen(rows, i + 1, acc)
         ELSE FirstSeen(rows, i + 1, Append(acc, rows[i].name))

\* by_name (380-386): the rows of the chosen expiry whose underlying has TA
Bucketed(base, ta) ==
    LET InTa(r) == r.name \in DOMAIN ta IN SelectSeq(base, InTa)

\* the candidates of one underlying (391-404)
CandidatesOf(nm, rows, ta) ==
    LET strikes == SetToSortedSeq({rows[i].strike : i \in {j \in 1..Len(rows) : rows[j].strike # NoneV}})
    IN  IF Len(strikes) = 0 THEN <<>>
        ELSE LET px   == ta[nm].px
                 atm  == atm_of(strikes, px)
                 rg   == ring(strikes, atm, RING_STRIKES)
                 InRing(r) == r.strike \in rg
                 Cand(r) ==
                     LET b == trade_bias_from_ta(r.instrument_type, ta[nm].ema5,
                                 ta[nm].ema10, ta[nm].px, ta[nm].r1, ta[nm].s1, ta[nm].rsi)
                     IN  [sym |-> "NFO:" \o r.tradingsymbol, meta |-> r,
                          side |-> r.instrument_type, base_type |-> b.type,
                          rationale |-> b.rationale, nm |-> nm]
                 kept == SelectSeq(rows, InRing)
             IN  [i \in 1..Len(kept) |-> Cand(kept[i])]

RECURSIVE CandidatesFrom(_, _, _, _)
CandidatesFrom(names, i, rows, ta) ==
    IF i > Len(names) THEN <<>>
    ELSE LET Mine(r) == r.name = names[i]
         IN  CandidatesOf(names[i], SelectSeq(rows, Mine), ta)
             \o CandidatesFrom(names, i + 1, rows, ta)

\* the candidate list (388-404)
BuildCandidateList(base, ta) ==
    LET rows == Bucketed(base, ta)
    IN  CandidatesFrom(FirstSeen(rows, 1, <<>>), 1, rows, ta)

\* implied_vol's guard (254) around the solver's answer for the contract
implied_vol(q, S, K, price) ==
    IF price = NoneV \/ price <= 0 \/ S <= 0 \/ K <= 0 THEN NoneV ELSE q.iv

\* bs_greeks that leaves vega and rho out
bs_greeks_NoVegaRho(q, S, K, sigma) ==
    IF S <= 0 \/ K <= 0 \/ sigma = NoneV \/ sigma <= 0 THEN NoGreeks
    ELSE [q.greeks EXCEPT !.vega = NoneV, !.rho = NoneV]

\* bs_greeks's guard (232-233) around the closed forms' values for the contract
bs_greeks(q, S, K, sigma) ==
    IF S <= 0 \/ K <= 0 \/ sigma = NoneV \/ sigma <= 0 THEN NoGreeks ELSE q.greeks

\* SuggestedLots that sizes shorts too
SuggestedLots_AnyType(final_type, lot_cost) ==
    IF lot_cost > 0 THEN BUDGET \div lot_cost ELSE 0

\* sizing, longs only (443-444)
SuggestedLots(final_type, lot_cost) ==
    IF final_type = "LONG" /\ lot_cost > 0 THEN BUDGET \div lot_cost ELSE 0

\* the quote a candidate is scored with (423): quotes.get(sym) or {}
QuoteOf(quotes, sym) ==
    IF sym \in DOMAIN quotes THEN quotes[sym] ELSE EmptyQuote

\* one pass of the scoring loop for candidate c (422-481): the pick and the
\* gate's verdict
ScoreCandidate(c, q, ta) ==
    LET ltp  == IF Truthy(q.last_price) THEN q.last_price ELSE 0
        lot  == IF Truthy(c.meta.lot_size) THEN c.meta.lot_size ELSE 1
        sc   == score(q, lot, ltp, c.base_type)
        S    == IF c.nm \in DOMAIN ta /\ Truthy(ta[c.nm].px) THEN ta[c.nm].px ELSE 0
        K    == IF Truthy(c.meta.strike) THEN c.meta.strike ELSE 0
        iv   == IF S > 0 /\ K > 0 /\ ltp > 0 THEN implied_vol(q, S, K, ltp) ELSE NoneV
        gks  == IF Truthy(iv) THEN bs_greeks(q, S, K, iv) ELSE NoGreeks
        g    == apply_greeks_gates(c.side, c.base_type, ltp, iv, gks)
        lots == SuggestedLots(g.final, ltp * lot)
        long == g.final = "LONG"
    IN  [gate |-> g,
         pick |-> [symbol |-> c.sym, tradingsymbol |-> c.meta.tradingsymbol,
                   name |-> c.nm, type |-> c.side, trade_type |-> g.final,
                   strike |-> c.meta.strike, expiry |-> c.meta.expiry,
                   ltp |-> ltp, lot_size |-> lot, score |-> sc,
                   suggested_lots |-> lots,
                   reason |-> [ta |-> c.rationale, gk |-> g.note, fails |-> g.fails],
                   tp |-> tick_round(ltp * (IF long THEN 150 ELSE 60)),
                   sl |-> tick_round(ltp * (IF long THEN 70 ELSE 150)),
                   entry_action |-> IF long THEN "BUY" ELSE "SELL",
                   exit_action |-> IF long THEN "SELL" ELSE "BUY",
                   iv |-> IF Truthy(iv) THEN iv ELSE NoneV,
                   delta |-> gks.delta, gamma |-> gks.gamma,
                   theta_per_day |-> gks.theta, vega_per_volpt |-> gks.vega,
                   rho_per_ratept |-> gks.rho]]

\* scored.sort(key=score, reverse=True): stable, descending.  The element at
\* k goes behind those that score more and those before it that score the same
SortDesc(s) ==
    LET Pos(k) == 1 + Cardinality({j \in 1..Len(s) : s[j].score > s[k].score})
                    + Cardinality({j \in 1..(k - 1) : s[j].score = s[k].score})
    IN  [p \in 1..Len(s) |-> s[CHOOSE k \in 1..Len(s) : Pos(k) = p]]

\* RankPicks that cuts the list before sorting it
RankPicks_TruncateFirst(scored) == SortDesc(Take(scored, MAX_PICKS))

\* the ranking (483-484)
RankPicks(scored) == Take(SortDesc(scored), MAX_PICKS)

-----------------------------------------------------------------------------
(* The state machine: run_smc_scan, one step per shared read, provider call
   or loop pass *)

NoFile == [state |-> "absent", rows |-> <<>>]

NewOut == [status |-> "ok", ts |-> "now", budget |-> BUDGET, picks |-> <<>>,
           errors |-> <<>>, diag |-> <<>>]

\* no verdict yet
NoGate == [final |-> "", note |-> "", fails |-> <<>>, passed |-> FALSE]

NewLoc == [nfo |-> <<>>, nse |-> <<>>, exp |-> NoneV, base |-> <<>>, i |-> 0,
           ta |-> <<>>, candidates |-> <<>>, quotes |-> <<>>, scored |-> <<>>,
           gate |-> NoGate, exc |-> "",
           calls |-> [instruments |-> 0, historical_data |-> 0, quote |-> 0]]

InFlight == {s \in ScanIds : pc[s] \notin {"idle", "done", "crashed"}}

\* InTry with the try block ending before the scoring loop
InTry_ScoringOutside(p) ==
    p \in {"load", "fetch", "wnfo_open", "wnfo_close", "wnse_open", "wnse_close",
           "check", "map", "map_loop", "ta", "cand", "quote"}

\* the statements the try block of run_smc_scan covers (338-485)
InTry(p) == p \in {"load", "fetch", "wnfo_open", "wnfo_close", "wnse_open",
                   "wnse_close", "check", "map", "map_loop", "ta", "cand",
                   "quote", "score", "finish"}

\* where an exception raised at p goes: the handler (487), or the caller
ExcTarget(p) == IF InTry(p) THEN "except" ELSE "crashed"

SetDiag(o, k, v) == [o EXCEPT !.diag = (k :> v) @@ @]

\* the request reaches run_smc_scan: out is built (336-337)
Begin(s) ==
    /\ pc[s] = "idle"
    /\ s = nreq + 1
    /\ Cardinality(InFlight) < threads
    /\ nreq' = nreq + 1
    /\ pc' = [pc EXCEPT ![s] = "load"]
    /\ out' = [out EXCEPT ![s] = NewOut]
    /\ loc' = [loc EXCEPT ![s] = NewLoc]
    /\ UNCHANGED <<ALLOW_IF_NO_GREEKS, mkt, threads, nfo_file, nse_file,
                   TOKEN_CACHE, gate_in, gate_out, callvars, appvars>>

\* _load_instruments, the cached path (109-113): both files exist and read back;
\* a file that does not parse raises inside the try and falls through
LoadCached(s) ==
    /\ pc[s] = "load"
    /\ IF nfo_file.state # "absent" /\ nse_file.state # "absent"
          /\ nfo_file.state = "complete" /\ nse_file.state = "complete"
       THEN /\ loc' = [loc EXCEPT ![s].nfo = nfo_file.rows, ![s].nse = nse_file.rows]
            /\ pc' = [pc EXCEPT ![s] = "check"]
       ELSE /\ pc' = [pc EXCEPT ![s] = "fetch"]
            /\ loc' = loc
    /\ UNCHANGED <<ALLOW_IF_NO_GREEKS, mkt, threads, nreq, nfo_file, nse_file,
                   TOKEN_CACHE, out, gate_in, gate_out, callvars, appvars>>

\* _load_instruments, the provider path (114-118)
Fetch(s) ==
    /\ pc[s] = "fetch"
    /\ IF mkt.instr = "raise"
       THEN /\ pc' = [pc EXCEPT ![s] = ExcTarget(pc[s])]
            /\ loc' = [loc EXCEPT ![s].exc = "instruments failed",
                                  ![s].calls.instruments = @ + 1]
       ELSE /\ pc' = [pc EXCEPT ![s] = "wnfo_open"]
            /\ loc' = [loc EXCEPT ![s].nfo = slim_rows_nfo(mkt.nfo, NIFTY50),
                                  ![s].nse = slim_rows_nse(mkt.nse, NIFTY50),
                                  ![s].calls.instruments = @ + 2]
    /\ UNCHANGED <<ALLOW_IF_NO_GREEKS, mkt, threads, nreq, nfo_file, nse_file,
                   TOKEN_CACHE, out, gate_in, gate_out, callvars, appvars>>

\* _gz_write(NFO_PATH, nfo_rows), opening: the file exists, truncated; a dump
\* that raises is swallowed (67-68) and leaves it so
WriteNfoOpen(s) ==
    /\ pc[s] = "wnfo_open"
    /\ nfo_file' = [state |-> "partial", rows |-> <<>>]
    /\ pc' = [pc EXCEPT ![s] = IF Dumpable(loc[s].nfo) THEN "wnfo_close" ELSE "wnse_open"]
    /\ UNCHANGED <<ALLOW_IF_NO_GREEKS, mkt, threads, nreq, nse_file,
                   TOKEN_CACHE, out, loc, gate_in, gate_out, callvars, appvars>>

\* _gz_write(NFO_PATH, nfo_rows), the dump done and the file closed
WriteNfoClose(s) ==
    /\ pc[s] = "wnfo_close"
    /\ nfo_file' = [state |-> "complete", rows |-> loc[s].nfo]
    /\ pc' = [pc EXCEPT ![s] = "wnse_open"]
    /\ UNCHANGED <<ALLOW_IF_NO_GREEKS, mkt, threads, nreq, nse_file,
                   TOKEN_CACHE, out, loc, gate_in, gate_out, callvars, appvars>>

\* _gz_write(NSE_PATH, nse_rows), opening
WriteNseOpen(s) ==
    /\ pc[s] = "wnse_open"
    /\ nse_file' = [state |-> "partial", rows |-> <<>>]
    /\ pc' = [pc EXCEPT ![s] = IF Dumpable(loc[s].nse) THEN "wnse_close" ELSE "check"]
    /\ UNCHANGED <<ALLOW_IF_NO_GREEKS, mkt, threads, nreq, nfo_file,
                   TOKEN_CACHE, out, loc, gate_in, gate_out, callvars, appvars>>

\* _gz_write(NSE_PATH, nse_rows), closing
WriteNseClose(s) ==
    /\ pc[s] = "wnse_close"
    /\ nse_file' = [state |-> "complete", rows |-> loc[s].nse]
    /\ pc' = [pc EXCEPT ![s] = "check"]
    /\ UNCHANGED <<ALLOW_IF_NO_GREEKS, mkt, threads, nreq, nfo_file,
                   TOKEN_CACHE, out, loc, gate_in, gate_out, callvars, appvars>>

\* the result of the hard-prerequisite checks (340-350) on the loaded rows
CheckedOut(o, nfo) ==
    LET o1  == SetDiag(o, "nfo_filtered", Len(nfo))
        exp == nearest_expiry(nfo)
        o2  == SetDiag(o1, "expiry", exp)
    IN  IF Len(nfo) = 0
        THEN [o1 EXCEPT !.status = "error",
                        !.errors = Append(@, "No NFO rows for NIFTY50")]
        ELSE IF exp = NoneV
             THEN [o2 EXCEPT !.status = "error",
                             !.errors = Append(@, "No upcoming expiry")]
             ELSE o2

\* HardFailure that forgets the return of line 349
HardFailure_EmptyOnly(nfo) == Len(nfo) = 0

\* whether the prerequisite checks return at once (343, 349)
HardFailure(nfo) == Len(nfo) = 0 \/ nearest_expiry(nfo) = NoneV

\* lines 340-350
CheckInstruments(s) ==
    /\ pc[s] = "check"
    /\ out' = [out EXCEPT ![s] = CheckedOut(out[s], loc[s].nfo)]
    /\ IF HardFailure(loc[s].nfo)
       THEN /\ pc' = [pc EXCEPT ![s] = "done"]
            /\ loc' = loc
       ELSE LET exp == nearest_expiry(loc[s].nfo)
                AtExp(r) == r.expiry # NoneV /\ r.expiry = exp
            IN  /\ pc' = [pc EXCEPT ![s] = "map"]
                /\ loc' = [loc EXCEPT ![s].exp = exp,
                                      ![s].base = SelectSeq(loc[s].nfo, AtExp)]
    /\ UNCHANGED <<ALLOW_IF_NO_GREEKS, mkt, threads, nreq, nfo_file, nse_file,
                   TOKEN_CACHE, gate_in, gate_out, callvars, appvars>>

\* _map_tokens, its entry (125-127): a non-empty cache is returned as it is
MapTokensEnter(s) ==
    /\ pc[s] = "map"
    /\ pc' = [pc EXCEPT ![s] = IF DOMAIN TOKEN_CACHE # {} THEN "ta" ELSE "map_loop"]
    /\ loc' = [loc EXCEPT ![s].i = 1]
    /\ UNCHANGED <<ALLOW_IF_NO_GREEKS, mkt, threads, nreq, nfo_file, nse_file,
                   TOKEN_CACHE, out, gate_in, gate_out, callvars, appvars>>

\* _map_tokens, one pass of its loop (128-133)
MapTokensStep(s) ==
    /\ pc[s] = "map_loop"
    /\ LET i == loc[s].i
           wanted == Range(NIFTY50)
       IN  IF i > Len(loc[s].nse)
           THEN /\ pc' = [pc EXCEPT ![s] = "ta"]
                /\ loc' = [loc EXCEPT ![s].i = 1]
                /\ TOKEN_CACHE' = TOKEN_CACHE
           ELSE LET r == loc[s].nse[i]
                    cache2 == IF r.tradingsymbol \in wanted
                              THEN (r.tradingsymbol :> r.instrument_token) @@ TOKEN_CACHE
                              ELSE TOKEN_CACHE
                    full == r.tradingsymbol \in wanted
                            /\ Cardinality(DOMAIN cache2) = Cardinality(wanted)
                IN  /\ TOKEN_CACHE' = cache2
                    /\ pc' = [pc EXCEPT ![s] = IF full THEN "ta" ELSE "map_loop"]
                    /\ loc' = [loc EXCEPT ![s].i = IF full THEN 1 ELSE i + 1]
    /\ UNCHANGED <<ALLOW_IF_NO_GREEKS, mkt, threads, nreq, nfo_file, nse_file,
                   out, gate_in, gate_out, callvars, appvars>>

\* the TA entry of a history of at least 15 bars (368-375)
TaEntry(h) == [ema5 |-> h.ema5, ema10 |-> h.ema10, rsi |-> h.rsi,
               r1 |-> h.r1, s1 |-> h.s1, px |-> h.px]

\* SkipsHistory that forgets the 15-bar minimum
SkipsHistory_EmptyOnly(h) == h.kind = "raise" \/ h.n = 0

\* whether the TA loop skips the history it got (364-367): a failed request
\* counts as no bars
SkipsHistory(h) == h.kind = "raise" \/ h.n = 0 \/ h.n < MIN_BARS

\* one pass of the TA loop (359-375) for NIFTY50[i]; tokens is _TOKEN_CACHE itself
TaStep(s) ==
    /\ pc[s] = "ta"
    /\ LET i   == loc[s].i
           sym == NIFTY50[i]
           t   == IF sym \in DOMAIN TOKEN_CACHE THEN TOKEN_CACHE[sym] ELSE NoneV
           nxt == IF i = Len(NIFTY50) THEN "cand" ELSE "ta"
       IN  IF ~Truthy(t)
           THEN /\ pc' = [pc EXCEPT ![s] = nxt]
                /\ loc' = [loc EXCEPT ![s].i = i + 1]
           ELSE LET h == mkt.hist[t]
                IN  IF SkipsHistory(h)
                    THEN /\ pc' = [pc EXCEPT ![s] = nxt]
                         /\ loc' = [loc EXCEPT ![s].i = i + 1,
                                               ![s].calls.historical_data = @ + 1]
                    ELSE IF h.kind = "malformed"
                    THEN /\ pc' = [pc EXCEPT ![s] = ExcTarget(pc[s])]
                         /\ loc' = [loc EXCEPT ![s].exc = "KeyError: close",
                                               ![s].calls.historical_data = @ + 1]
                    ELSE /\ pc' = [pc EXCEPT ![s] = nxt]
                         /\ loc' = [loc EXCEPT ![s].i = i + 1,
                                               ![s].ta = (sym :> TaEntry(h)) @@ @,
                                               ![s].calls.historical_data = @ + 1]
    /\ UNCHANGED <<ALLOW_IF_NO_GREEKS, mkt, threads, nreq, nfo_file, nse_file,
                   TOKEN_CACHE, out, gate_in, gate_out, callvars, appvars>>

\* the result when no candidate is left (406-409)
NoCandidatesOut(o) ==
    [o EXCEPT !.errors = Append(@, "No option candidates after ring filter")]

\* lines 380-409: bucket, ring, candidate list
BuildCandidates(s) ==
    /\ pc[s] = "cand"
    /\ LET cands == BuildCandidateList(loc[s].base, loc[s].ta)
           o1 == SetDiag(out[s], "candidates", Len(cands))
       IN  /\ loc' = [loc EXCEPT ![s].candidates = cands, ![s].i = 1]
           /\ IF Len(cands) = 0
              THEN /\ out' = [out EXCEPT ![s] = NoCandidatesOut(o1)]
                   /\ pc' = [pc EXCEPT ![s] = "done"]
              ELSE /\ out' = [out EXCEPT ![s] = o1]
                   /\ pc' = [pc EXCEPT ![s] = "quote"]
    /\ UNCHANGED <<ALLOW_IF_NO_GREEKS, mkt, threads, nreq, nfo_file, nse_file,
                   TOKEN_CACHE, gate_in, gate_out, callvars, appvars>>

\* what kite.quote(batch) returns: the quotes the provider has, a subset
QuoteReply(batch) ==
    LET have == {batch[k] : k \in {j \in 1..Len(batch) :
                     batch[j] \in DOMAIN mkt.quote /\ mkt.quote[batch[j]].kind # "missing"}}
    IN  [sym \in have |-> mkt.quote[sym]]

\* one quote batch (413-418)
QuoteBatch(s) ==
    /\ pc[s] = "quote"
    /\ LET i     == loc[s].i
           cands == loc[s].candidates
           last  == Min2(i + QUOTE_BATCH - 1, Len(cands))
           batch == [k \in 1..(last - i + 1) |-> cands[i + k - 1].sym]
           more  == last < Len(cands)
       IN  /\ pc' = [pc EXCEPT ![s] = IF more THEN "quote" ELSE "score"]
           /\ IF mkt.quote_raises
              THEN /\ out' = [out EXCEPT ![s].errors = Append(@, "quote error")]
                   /\ loc' = [loc EXCEPT ![s].i = IF more THEN last + 1 ELSE 1,
                                         ![s].calls.quote = @ + 1]
              ELSE /\ out' = out
                   /\ loc' = [loc EXCEPT ![s].i = IF more THEN last + 1 ELSE 1,
                                         ![s].quotes = QuoteReply(batch) @@ @,
                                         ![s].calls.quote = @ + 1]
    /\ UNCHANGED <<ALLOW_IF_NO_GREEKS, mkt, threads, nreq, nfo_file, nse_file,
                   TOKEN_CACHE, gate_in, gate_out, callvars, appvars>>

\* one pass of the scoring loop (422-481); a quote whose last_price is no number
\* raises at float() (424)
ScoreStep(s) ==
    /\ pc[s] = "score"
    /\ LET i == loc[s].i
           c == loc[s].candidates[i]
           q == QuoteOf(loc[s].quotes, c.sym)
       IN  IF q.kind = "malformed"
           THEN /\ pc' = [pc EXCEPT ![s] = ExcTarget(pc[s])]
                /\ loc' = [loc EXCEPT ![s].exc = "ValueError: last_price"]
           ELSE LET r == ScoreCandidate(c, q, loc[s].ta)
                IN  /\ pc' = [pc EXCEPT ![s] = IF i = Len(loc[s].candidates)
                                                THEN "finish" ELSE "score"]
                    /\ loc' = [loc EXCEPT ![s].i = i + 1,
                                          ![s].scored = Append(@, r.pick),
                                          ![s].gate = r.gate]
    /\ UNCHANGED <<ALLOW_IF_NO_GREEKS, mkt, threads, nreq, nfo_file, nse_file,
                   TOKEN_CACHE, out, gate_in, gate_out, callvars, appvars>>

\* lines 483-485
Finish(s) ==
    /\ pc[s] = "finish"
    /\ out' = [out EXCEPT ![s].picks = RankPicks(loc[s].scored)]
    /\ pc' = [pc EXCEPT ![s] = "done"]
    /\ UNCHANGED <<ALLOW_IF_NO_GREEKS, mkt, threads, nreq, nfo_file, nse_file,
                   TOKEN_CACHE, loc, gate_in, gate_out, callvars, appvars>>

\* the handler (487-488)
Except(s) ==
    /\ pc[s] = "except"
    /\ out' = [out EXCEPT ![s].status = "error", ![s].errors = Append(@, loc[s].exc)]
    /\ pc' = [pc EXCEPT ![s] = "done"]
    /\ UNCHANGED <<ALLOW_IF_NO_GREEKS, mkt, threads, nreq, nfo_file, nse_file,
                   TOKEN_CACHE, loc, gate_in, gate_out, callvars, appvars>>

Step(s) ==
    \/ Begin(s)
    \/ LoadCached(s)
    \/ Fetch(s)
    \/ WriteNfoOpen(s)
    \/ WriteNfoClose(s)
    \/ WriteNseOpen(s)
    \/ WriteNseClose(s)
    \/ CheckInstruments(s)
    \/ MapTokensEnter(s)
    \/ MapTokensStep(s)
    \/ TaStep(s)
    \/ BuildCandidates(s)
    \/ QuoteBatch(s)
    \/ ScoreStep(s)
    \/ Finish(s)
    \/ Except(s)

Next == \E s \in ScanIds : Step(s)

\* no direct call of the ATM choice and _ring
NoRingCall == [strikes |-> <<>>, px |-> NoneV, atm |-> NoneV, ring |-> {},
               done |-> FALSE]

\* no direct call of the ranking
NoRankCall == [scored |-> <<>>, picks |-> <<>>, done |-> FALSE]

\* no call of implied_vol
NoIvCall == [pc |-> "idle", S |-> 0, K |-> 0, T |-> 0, price |-> NoneV,
             root2 |-> 0, e2 |-> 0, lo |-> 0, hi |-> 0, a |-> 0, b |-> 0,
             fa |-> 0, fb |-> 0, ne |-> 0, nb |-> 0, ret |-> NoneV]

IdleCalls ==
    /\ ring_call = NoRingCall
    /\ rank_call = NoRankCall
    /\ iv_call = NoIvCall

\* request.get_json() of /api/execute; an absent key is None (or "" for text)
Payload(tt, act, qty, ot, price, exits, tp, sl) ==
    [symbol |-> "NFO:A100CE", trade_type |-> tt, action |-> act, quantity |-> qty,
     order_type |-> ot, price |-> price, with_tp_sl |-> exits, tp |-> tp, sl |-> sl]

\* the JSON body of a response; an absent key is None (or "" for text)
NoBody == [status |-> "", error |-> "", entry_order_id |-> NoneV,
           tp_order_id |-> NoneV, sl_order_id |-> NoneV,
           used_limit_price |-> NoneV, note |-> "", tp_error |-> "",
           sl_error |-> ""]

\* no request in flight
NoReq == [pc |-> "idle", payload |-> Payload("", "", 0, "LIMIT", NoneV, FALSE, NoneV, NoneV),
          quote |-> [ltp |-> NoneV, best_buy |-> NoneV, best_sell |-> NoneV],
          action |-> "", qty |-> 0, chosen_price |-> NoneV,
          queued_as_amo |-> FALSE, body |-> NoBody]

\* no response yet; a response is kept with the request it answers
NoResp == [route |-> "", n |-> 0, code |-> 0, body |-> NoBody,
           payload |-> NoReq.payload,
           quote |-> [ltp |-> NoneV, best_buy |-> NoneV, best_sell |-> NoneV],
           chosen_price |-> NoneV]

\* the web application not started
IdleApp ==
    /\ ALLOW_ORDER_EXEC = FALSE
    /\ ALLOW_AMO = FALSE
    /\ access_token = NoneV
    /\ sessions = 0
    /\ nexec = 0
    /\ req = NoReq
    /\ orders = <<>>
    /\ resp = NoResp

NoGateCall == [side |-> "", base |-> "", ltp |-> 0, iv |-> NoneV, greeks |-> NoGreeks]

InitCommon ==
    /\ ALLOW_IF_NO_GREEKS \in BOOLEAN
    /\ nreq = 0
    /\ nfo_file = NoFile
    /\ nse_file = NoFile
    /\ TOKEN_CACHE = <<>>
    /\ pc = [s \in ScanIds |-> "idle"]
    /\ out = [s \in ScanIds |-> NewOut]
    /\ loc = [s \in ScanIds |-> NewLoc]
    /\ gate_in = NoGateCall
    /\ gate_out = NoGate
    /\ IdleCalls
    /\ IdleApp

\* scans served one at a time
Init ==
    /\ InitCommon
    /\ mkt \in Markets
    /\ threads = 1

Spec == Init /\ [][Next]_vars

\* scans served concurrently, one thread each
InitConc ==
    /\ InitCommon
    /\ mkt \in ConcMarkets
    /\ threads = MaxScans

SpecConc == InitConc /\ [][Next]_vars

-----------------------------------------------------------------------------
(* _apply_greeks_gates called on its own, on every input of a bounded grid *)

GateIvs    == {NoneV, 11, 12, 27, 28, 45, 46}
GateDeltas == {NoneV, -66, -65, -30, 29, 30, 65, 66}
GateGammas == {NoneV, 200, 201}
GateThetas == {0, -100, -101}
GateLtps   == {0, 1, 50}

GateCalls ==
    { [side |-> sd, base |-> b, ltp |-> l, iv |-> v,
       greeks |-> [delta |-> d, gamma |-> g, theta |-> t, vega |-> 10, rho |-> 1]] :
        sd \in {"CE", "PE"}, b \in {"LONG", "SHORT"}, l \in GateLtps, v \in GateIvs,
        d \in GateDeltas, g \in GateGammas, t \in GateThetas }

InitGates ==
    /\ ALLOW_IF_NO_GREEKS \in BOOLEAN
    /\ nreq = 0
    /\ nfo_file = NoFile
    /\ nse_file = NoFile
    /\ TOKEN_CACHE = <<>>
    /\ pc = [s \in ScanIds |-> "idle"]
    /\ out = [s \in ScanIds |-> NewOut]
    /\ loc = [s \in ScanIds |-> NewLoc]
    /\ mkt = Market("ok", <<>>, HEmpty, HShortB, FALSE, EmptyQuote, EmptyQuote, EmptyQuote)
    /\ threads = 0
    /\ gate_in \in GateCalls
    /\ gate_out = NoGate
    /\ IdleCalls
    /\ IdleApp

\* the call returns
ApplyGates ==
    /\ gate_out = NoGate
    /\ gate_in # NoGateCall
    /\ gate_out' = apply_greeks_gates(gate_in.side, gate_in.base, gate_in.ltp,
                                      gate_in.iv, gate_in.greeks)
    /\ UNCHANGED <<ALLOW_IF_NO_GREEKS, mkt, threads, nreq, nfo_file, nse_file,
                   TOKEN_CACHE, pc, out, loc, gate_in, callvars, appvars>>

NextGates == ApplyGates

SpecGates == InitGates /\ [][NextGates]_vars

-----------------------------------------------------------------------------
(* The ATM choice (393-394) and _ring called on their own, on every strike
   list and reference price of a bounded grid *)

\* the listed strikes of an underlying, sorted: a run of a 10-rupee ladder, or
\* an uneven list
StrikeLists ==
    { [k \in 1..(hi - lo + 1) |-> 10 * (lo + k - 1)] : lo \in 1..MaxStrikes, hi \in 1..MaxStrikes }
    \cup { <<5, 50, 51, 52, 400>>, <<1, 2, 3, 4, 5, 6, 7, 8, 9, 10, 1000>> }

\* the last close of the underlying: missing, zero, below, between (a tie at
\* 65), on a strike, above
PxPool == {NoneV, 0, 5, 52, 60, 65, 120, 500}

RingCalls ==
    { [NoRingCall EXCEPT !.strikes = ks, !.px = px] :
        ks \in {l \in StrikeLists : Len(l) > 0}, px \in PxPool }

InitRing ==
    /\ ALLOW_IF_NO_GREEKS = FALSE
    /\ nreq = 0
    /\ nfo_file = NoFile
    /\ nse_file = NoFile
    /\ TOKEN_CACHE = <<>>
    /\ pc = [s \in ScanIds |-> "idle"]
    /\ out = [s \in ScanIds |-> NewOut]
    /\ loc = [s \in ScanIds |-> NewLoc]
    /\ mkt = Market("ok", <<>>, HEmpty, HShortB, FALSE, EmptyQuote, EmptyQuote, EmptyQuote)
    /\ threads = 0
    /\ gate_in = NoGateCall
    /\ gate_out = NoGate
    /\ ring_call \in RingCalls
    /\ rank_call = NoRankCall
    /\ iv_call = NoIvCall
    /\ IdleApp

\* lines 393-395: the ATM strike, then the ring around it
ResolveRing ==
    /\ ~ring_call.done
    /\ ring_call.strikes # <<>>
    /\ LET atm == atm_of(ring_call.strikes, ring_call.px)
       IN  ring_call' = [ring_call EXCEPT !.atm = atm,
                                          !.ring = ring(ring_call.strikes, atm, RING_STRIKES),
                                          !.done = TRUE]
    /\ UNCHANGED <<scanvars, rank_call, iv_call, appvars>>

SpecRing == InitRing /\ [][ResolveRing]_vars

-----------------------------------------------------------------------------
(* The final ranking (483-484) called on its own, on scored lists of up to
   MaxScored picks *)

\* how the scores run along the scored list: rising, falling, level, uneven
\* with ties, alternating
ScorePatterns == {"rising", "falling", "level", "uneven", "alternating"}

ScoreAt(pat, k) ==
    CASE pat = "rising"      -> 1000 * k
      [] pat = "falling"     -> -1000 * k
      [] pat = "level"       -> 80000
      [] pat = "uneven"      -> 1000 * ((7 * k) % 5)
      [] pat = "alternating" -> IF k % 2 = 0 THEN 1000 * k ELSE -1000 * k

\* a scored list: the k-th scored candidate is known by its symbol k
ScoredList(n, pat) == [k \in 1..n |-> [symbol |-> k, score |-> ScoreAt(pat, k)]]

RankCalls ==
    { [NoRankCall EXCEPT !.scored = ScoredList(n, pat)] :
        n \in 0..MaxScored, pat \in ScorePatterns }

InitRank ==
    /\ ALLOW_IF_NO_GREEKS = FALSE
    /\ nreq = 0
    /\ nfo_file = NoFile
    /\ nse_file = NoFile
    /\ TOKEN_CACHE = <<>>
    /\ pc = [s \in ScanIds |-> "idle"]
    /\ out = [s \in ScanIds |-> NewOut]
    /\ loc = [s \in ScanIds |-> NewLoc]
    /\ mkt = Market("ok", <<>>, HEmpty, HShortB, FALSE, EmptyQuote, EmptyQuote, EmptyQuote)
    /\ threads = 0
    /\ gate_in = NoGateCall
    /\ gate_out = NoGate
    /\ ring_call = NoRingCall
    /\ rank_call \in RankCalls
    /\ iv_call = NoIvCall
    /\ IdleApp

\* lines 483-484: sort by score, descending, and keep the first 50
Rank ==
    /\ ~rank_call.done
    /\ rank_call' = [rank_call EXCEPT !.picks = RankPicks(rank_call.scored),
                                      !.done = TRUE]
    /\ UNCHANGED <<scanvars, ring_call, iv_call, appvars>>

SpecRank == InitRank /\ [][Rank]_vars

-----------------------------------------------------------------------------
(* implied_vol (253-273), step by step.  Volatilities are fixed-point numbers
   in units of 1e-4 (lo = 1e-4 -> 1, hi = 5.0 -> 50000): a midpoint is rounded
   to the grid as a float midpoint is rounded to a float.  The pricing error
   bs_price(sigma) - price rises with sigma; a call carries where it crosses
   zero (root2, in half units, so that it may fall between two grid points)
   and how close to it the error is below tol (e2, in half units). *)

Sgn(x) == IF x > 0 THEN 1 ELSE IF x < 0 THEN -1 ELSE 0

\* bs_price(side, S, K, T, r, q, sigma) - price, normalised by the slope
PriceError(c, sigma) == (2 * sigma) - c.root2

\* line 254
IvGuardFails(c) ==
    c.price = NoneV \/ c.price <= 0 \/ c.S <= 0 \/ c.K <= 0 \/ c.T <= 0

\* line 260: (plo - price) * (phi - price) <= 0
Straddles(flo, fhi) == Sgn(flo) * Sgn(fhi) <= 0

\* Unbracketed that lets every bracket through
Unbracketed_Never(fa, fb) == FALSE

\* line 266: fa*fb > 0
Unbracketed(fa, fb) == Sgn(fa) * Sgn(fb) > 0

\* line 270: abs(fm) < tol
WithinTol(c, fm) == Abs(fm) < c.e2

\* 0.5*(a+b), on the grid
Midpoint(a, b) == (a + b) \div 2

\* where the pricing error crosses zero: below lo, at lo, on and off the grid
\* inside the first bracket, at hi, inside the expanded brackets, beyond them
IvRoots == {-1, 2, 6000, 6001, 40001, 100000, 120001, 180001, 250001}

IvTols == {1, 50}

IvCalls ==
    { [NoIvCall EXCEPT !.pc = "call", !.S = 100, !.K = 100, !.T = 7, !.price = 50,
                       !.root2 = r, !.e2 = e] : r \in IvRoots, e \in IvTols }
    \cup
    { [NoIvCall EXCEPT !.pc = "call", !.S = S, !.K = K, !.T = T, !.price = px,
                       !.root2 = 6001, !.e2 = 1] :
        S \in {0, 100}, K \in {-100, 100}, T \in {0, 7}, px \in {NoneV, 0, 50} }

InitIv ==
    /\ ALLOW_IF_NO_GREEKS = FALSE
    /\ nreq = 0
    /\ nfo_file = NoFile
    /\ nse_file = NoFile
    /\ TOKEN_CACHE = <<>>
    /\ pc = [s \in ScanIds |-> "idle"]
    /\ out = [s \in ScanIds |-> NewOut]
    /\ loc = [s \in ScanIds |-> NewLoc]
    /\ mkt = Market("ok", <<>>, HEmpty, HShortB, FALSE, EmptyQuote, EmptyQuote, EmptyQuote)
    /\ threads = 0
    /\ gate_in = NoGateCall
    /\ gate_out = NoGate
    /\ ring_call = NoRingCall
    /\ rank_call = NoRankCall
    /\ iv_call \in IvCalls
    /\ IdleApp

\* line 254, and the defaults lo=1e-4, hi=5.0
IvEnter ==
    /\ iv_call.pc = "call"
    /\ iv_call' = IF IvGuardFails(iv_call)
                  THEN [iv_call EXCEPT !.pc = "done", !.ret = NoneV]
                  ELSE [iv_call EXCEPT !.pc = "expand", !.lo = IV_LO, !.hi = IV_HI]
    /\ UNCHANGED <<scanvars, ring_call, rank_call, appvars>>

\* one pass of the bracket expansion (256-262): for _ in range(10)
IvExpandStep ==
    /\ iv_call.pc = "expand"
    /\ LET c   == iv_call
           plo == PriceError(c, c.lo)
           phi == PriceError(c, c.hi)
           hi2 == (c.hi * 3) \div 2
       IN  iv_call' =
             IF c.ne = IV_EXPAND_TRIES THEN [c EXCEPT !.pc = "bracket"]
             ELSE IF Straddles(plo, phi)
                  THEN [c EXCEPT !.pc = "bracket", !.ne = @ + 1]
                  ELSE [c EXCEPT !.hi = hi2, !.ne = @ + 1,
                                 !.pc = IF hi2 > IV_HI_CAP THEN "bracket" ELSE "expand"]
    /\ UNCHANGED <<scanvars, ring_call, rank_call, appvars>>

\* lines 263-266: the bracket, and None when the price is not inside it
IvBracket ==
    /\ iv_call.pc = "bracket"
    /\ LET c  == iv_call
           fa == PriceError(c, c.lo)
           fb == PriceError(c, c.hi)
       IN  iv_call' =
             IF Unbracketed(fa, fb)
             THEN [c EXCEPT !.pc = "done", !.ret = NoneV, !.a = c.lo, !.b = c.hi,
                            !.fa = fa, !.fb = fb]
             ELSE [c EXCEPT !.pc = "bisect", !.a = c.lo, !.b = c.hi,
                            !.fa = fa, !.fb = fb]
    /\ UNCHANGED <<scanvars, ring_call, rank_call, appvars>>

\* one pass of the bisection (267-272), or line 273 once the 60 passes are spent
IvBisectStep ==
    /\ iv_call.pc = "bisect"
    /\ LET c  == iv_call
           m  == Midpoint(c.a, c.b)
           fm == PriceError(c, m)
       IN  iv_call' =
             IF c.nb = IV_MAX_ITER THEN [c EXCEPT !.pc = "done", !.ret = m]
             ELSE IF WithinTol(c, fm)
                  THEN [c EXCEPT !.pc = "done", !.ret = m, !.nb = @ + 1]
                  ELSE IF Sgn(c.fa) * Sgn(fm) <= 0
                       THEN [c EXCEPT !.b = m, !.fb = fm, !.nb = @ + 1]
                       ELSE [c EXCEPT !.a = m, !.fa = fm, !.nb = @ + 1]
    /\ UNCHANGED <<scanvars, ring_call, rank_call, appvars>>

NextIv ==
    \/ IvEnter
    \/ IvExpandStep
    \/ IvBracket
    \/ IvBisectStep

SpecIv == InitIv /\ [][NextIv]_vars

-----------------------------------------------------------------------------
(* The web application (app.py): /callback and /api/execute, one request at a
   time.  Prices are paise.  A broker message is the sequence of its
   characters. *)

UpperCase == <<"A", "B", "C", "D", "E", "F", "G", "H", "I", "J", "K", "L", "M",
               "N", "O", "P", "Q", "R", "S", "T", "U", "V", "W", "X", "Y", "Z">>

LowerCase == <<"a", "b", "c", "d", "e", "f", "g", "h", "i", "j", "k", "l", "m",
               "n", "o", "p", "q", "r", "s", "t", "u", "v", "w", "x", "y", "z">>

\* str.lower() of a message
Lower(msg) ==
    LET LowerChar(c) == IF \E i \in 1..Len(UpperCase) : UpperCase[i] = c
                        THEN LowerCase[CHOOSE i \in 1..Len(UpperCase) : UpperCase[i] = c]
                        ELSE c
    IN  [i \in 1..Len(msg) |-> LowerChar(msg[i])]

\* pat in msg
Contains(msg, pat) ==
    \E i \in 1..(Len(msg) - Len(pat) + 1) : SubSeq(msg, i, i + Len(pat) - 1) = pat

\* AMO_FALLBACK_PATTERNS (app.py:31-38)
AMO_FALLBACK_PATTERNS ==
    { <<"a", "f", "t", "e", "r", " ", "m", "a", "r", "k", "e", "t", " ", "o", "r", "d", "e", "r">>,
      <<"a", "m", "o">>,
      <<"m", "a", "r", "k", "e", "t", " ", "i", "s", " ", "c", "l", "o", "s", "e", "d">>,
      <<"o", "u", "t", "s", "i", "d", "e", " ", "m", "a", "r", "k", "e", "t", " ", "h", "o", "u", "r", "s">>,
      <<"c", "o", "u", "l", "d", " ", "n", "o", "t", " ", "b", "e", " ", "c", "o", "n", "v", "e", "r", "t", "e", "d">>,
      <<"n", "o", "t", " ", "a", "l", "l", "o", "w", "e", "d", " ", "d", "u", "r", "i", "n", "g", " ", "m", "a", "r", "k", "e", "t", " ", "c", "l", "o", "s", "e", "d">> }

\* what the broker may say when it refuses an order
RefusalMsgs ==
    { <<"M", "a", "r", "k", "e", "t", " ", "i", "s", " ", "c", "l", "o", "s", "e", "d">>,
      <<"I", "n", "s", "u", "f", "f", "i", "c", "i", "e", "n", "t", " ", "f", "u", "n", "d", "s">>,
      <<"O", "r", "d", "e", "r", " ", "c", "o", "u", "l", "d", " ", "n", "o", "t", " ", "b", "e", " ", "c", "o", "n", "v", "e", "r", "t", "e", "d">>,
      <<"I", "n", "s", "u", "f", "f", "i", "c", "i", "e", "n", "t", " ", "a", "m", "o", "u", "n", "t">>,
      <<"A", "M", "O", " ", "o", "n", "l", "y">> }

\* any(pat in msg for pat in AMO_FALLBACK_PATTERNS), msg = str(ex).lower()
MatchesAmoPattern(ex) ==
    \E pat \in AMO_FALLBACK_PATTERNS : Contains(Lower(ex), pat)

\* AmoFallback that forgets the ALLOW_AMO switch
AmoFallback_IgnoresSwitch(allow_amo, ex) == MatchesAmoPattern(ex)

\* line 238: whether a refused entry is tried again as AMO
AmoFallback(allow_amo, ex) == allow_amo /\ MatchesAmoPattern(ex)

\* str.upper() of the texts a payload may hold
Upper(s) ==
    CASE s = "long"  -> "LONG"
      [] s = "short" -> "SHORT"
      [] s = "buy"   -> "BUY"
      [] s = "sell"  -> "SELL"
      [] s = "hold"  -> "HOLD"
      [] s = "limit" -> "LIMIT"
      [] OTHER       -> s

\* lines 182-188: the action, derived from trade_type when that is LONG or SHORT
ResolvedAction(payload) ==
    LET trade_type == Upper(payload.trade_type)
    IN  IF trade_type \in {"LONG", "SHORT"}
        THEN (IF trade_type = "LONG" THEN "BUY" ELSE "SELL")
        ELSE Upper(payload.action)

\* what kite.quote answers for the contract (app.py:55-64); a failed request
\* and an empty answer both leave every field None
QuoteSnaps ==
    { [ltp |-> NoneV, best_buy |-> NoneV, best_sell |-> NoneV],
      [ltp |-> 5003, best_buy |-> NoneV, best_sell |-> NoneV],
      [ltp |-> 5003, best_buy |-> 4990, best_sell |-> 5010],
      [ltp |-> 5003, best_buy |-> 0, best_sell |-> 0] }

\* _compute_limit_from_quote (app.py:53-72): the price, or None
compute_limit_from_quote(q, action) ==
    LET side == IF action = "BUY" THEN q.best_sell ELSE q.best_buy
        ref  == IF Truthy(side) THEN side ELSE q.ltp
    IN  IF ref = NoneV THEN NoneV ELSE tick_round(ref)

\* lines 200-204: the client's limit price, or one derived from the quote
ChosenPrice(payload, action, q) ==
    IF Upper(payload.order_type) = "LIMIT" /\ payload.price # NoneV
    THEN tick_round(payload.price)
    ELSE compute_limit_from_quote(q, action)

\* ExecRefusal that forgets the login check
ExecRefusal_NoLoginCheck(switch, token) == IF ~switch THEN 403 ELSE 0

\* lines 157-168: the status the request is turned away with, or 0
ExecRefusal(switch, token) ==
    IF ~switch THEN 403 ELSE IF ~Truthy(token) THEN 401 ELSE 0

\* the payloads of the model: quantity None stands for one int() rejects
Payloads ==
    { Payload("LONG", "", 25, "LIMIT", 5003, TRUE, 7500, 3500),
      Payload("LONG", "", 25, "LIMIT", 5003, TRUE, NoneV, 3500),
      Payload("short", "buy", 25, "limit", NoneV, TRUE, 3000, NoneV),
      Payload("", "SELL", 25, "MARKET", 5003, FALSE, NoneV, NoneV),
      Payload("LONG", "", 25, "LIMIT", NoneV, FALSE, 7500, 3500),
      Payload("", "hold", 25, "LIMIT", 5003, TRUE, 7500, 3500),
      Payload("FLAT", "", 25, "LIMIT", 5003, FALSE, NoneV, NoneV),
      Payload("LONG", "", 0, "LIMIT", 5003, TRUE, 7500, 3500),
      Payload("", "buy", -25, "LIMIT", 5003, FALSE, NoneV, NoneV),
      Payload("LONG", "", NoneV, "LIMIT", 5003, FALSE, NoneV, NoneV) }

ErrorBody(text) == [NoBody EXCEPT !.status = "error", !.error = text]

Response(route, n, code, body, payload, q, price) ==
    [route |-> route, n |-> n, code |-> code, body |-> body,
     payload |-> payload, quote |-> q, chosen_price |-> price]

\* a place_order call as the broker sees it, with the login state it came under
Order(leg, variety, side, qty, price, accepted, ex) ==
    [n |-> nexec, leg |-> leg, variety |-> variety, side |-> side, qty |-> qty,
     price |-> price, accepted |-> accepted, ex |-> ex,
     token |-> access_token, logins |-> sessions, switch |-> ALLOW_ORDER_EXEC]

\* the order id the broker gives its next order
NextOrderId == (1000 * nexec) + Len(orders) + 1

\* /callback (app.py:107-116): the request token missing, generate_session
\* failing, or the session granted and its access token kept
Callback ==
    /\ req.pc = "idle"
    /\ sessions < MaxLogins
    /\ \E request_token \in {NoneV, 1}, granted \in BOOLEAN :
          IF ~Truthy(request_token)
          THEN /\ resp' = Response("callback", 0, 400, NoBody, NoReq.payload, NoReq.quote, NoneV)
               /\ UNCHANGED <<access_token, sessions>>
          ELSE IF ~granted
               THEN /\ resp' = Response("callback", 0, 500, NoBody, NoReq.payload, NoReq.quote, NoneV)
                    /\ UNCHANGED <<access_token, sessions>>
               ELSE /\ access_token' = 7000 + sessions + 1
                    /\ sessions' = sessions + 1
                    /\ resp' = Response("callback", 0, 302, NoBody, NoReq.payload, NoReq.quote, NoneV)
    /\ UNCHANGED <<scanvars, callvars, ALLOW_ORDER_EXEC, ALLOW_AMO, nexec, req, orders>>

\* /api/execute up to the entry order (app.py:157-227)
ExecBegin ==
    /\ req.pc = "idle"
    /\ nexec < MaxRequests
    /\ nexec' = nexec + 1
    /\ orders' = <<>>
    /\ \E payload \in Payloads, q \in QuoteSnaps :
          LET n      == nexec + 1
              code   == ExecRefusal(ALLOW_ORDER_EXEC, access_token)
              action == ResolvedAction(payload)
              price  == ChosenPrice(payload, action, q)
              Reply(c, text, pr) ==
                  /\ resp' = Response("execute", n, c, ErrorBody(text), payload, q, pr)
                  /\ req' = NoReq
          IN  IF code = 403 THEN Reply(403, "Order execution disabled. Set ALLOW_ORDER_EXEC=1", NoneV)
              ELSE IF code = 401 THEN Reply(401, "Not logged in.", NoneV)
              ELSE IF payload.quantity = NoneV THEN Reply(500, "int() argument", NoneV)
              ELSE IF action \notin {"BUY", "SELL"} THEN Reply(400, "Invalid action", NoneV)
              ELSE IF payload.quantity <= 0 THEN Reply(400, "Quantity must be > 0", NoneV)
              ELSE IF price = NoneV THEN Reply(502, "Unable to derive limit price from quote", NoneV)
              ELSE /\ req' = [NoReq EXCEPT !.pc = "entry", !.payload = payload,
                                           !.quote = q, !.action = action, !.qty = payload.quantity,
                                           !.chosen_price = price]
                   /\ resp' = resp
    /\ UNCHANGED <<scanvars, callvars, ALLOW_ORDER_EXEC, ALLOW_AMO, access_token,
                   sessions>>

\* where the request goes once its entry is placed (lines 286-311)
ExitStage(r, amo) ==
    IF r.payload.with_tp_sl /\ ~amo
    THEN (IF r.payload.tp # NoneV THEN "tp"
          ELSE IF r.payload.sl # NoneV THEN "sl" ELSE "respond")
    ELSE "respond"

\* the response body once the entry is placed (lines 274-282)
EntryBody(id, price, note) ==
    [NoBody EXCEPT !.status = "ok", !.entry_order_id = id,
                   !.used_limit_price = price, !.note = note]

\* the regular entry (lines 233-238, 255-257)
PlaceEntry ==
    /\ req.pc = "entry"
    /\ \E accepted \in BOOLEAN, ex \in RefusalMsgs :
          LET o == Order("entry", "regular", req.action, req.qty, req.chosen_price,
                         accepted, IF accepted THEN <<>> ELSE ex)
          IN  /\ orders' = Append(orders, o)
              /\ IF accepted
                 THEN /\ req' = [req EXCEPT !.pc = ExitStage(req, FALSE),
                                            !.body = EntryBody(NextOrderId, req.chosen_price, "")]
                      /\ resp' = resp
                 ELSE IF AmoFallback(ALLOW_AMO, ex)
                      THEN /\ req' = [req EXCEPT !.pc = "amo"]
                           /\ resp' = resp
                      ELSE /\ req' = NoReq
                           /\ resp' = Response("execute", nexec, 400, ErrorBody("refused"),
                                               req.payload, req.quote, req.chosen_price)
    /\ UNCHANGED <<scanvars, callvars, ALLOW_ORDER_EXEC, ALLOW_AMO, access_token,
                   sessions, nexec>>

\* the AMO retry of the entry (lines 239-254)
PlaceAmo ==
    /\ req.pc = "amo"
    /\ \E accepted \in BOOLEAN, ex \in RefusalMsgs :
          LET o == Order("entry", "amo", req.action, req.qty, req.chosen_price,
                         accepted, IF accepted THEN <<>> ELSE ex)
          IN  /\ orders' = Append(orders, o)
              /\ IF accepted
                 THEN /\ req' = [req EXCEPT !.pc = ExitStage(req, TRUE),
                                            !.queued_as_amo = TRUE,
                                            !.body = EntryBody(NextOrderId, req.chosen_price,
                                                     "Entry queued as AMO (market closed). TP/SL legs were skipped.")]
                      /\ resp' = resp
                 ELSE /\ req' = NoReq
                      /\ resp' = Response("execute", nexec, 400, ErrorBody("AMO failed"),
                                          req.payload, req.quote, req.chosen_price)
    /\ UNCHANGED <<scanvars, callvars, ALLOW_ORDER_EXEC, ALLOW_AMO, access_token,
                   sessions, nexec>>

ExitSide(action) == IF action = "BUY" THEN "SELL" ELSE "BUY"

\* the TP leg, a LIMIT order (lines 291-308)
PlaceTp ==
    /\ req.pc = "tp"
    /\ \E accepted \in BOOLEAN :
          LET tp_price == tick_round(req.payload.tp)
              o == Order("tp", "regular", ExitSide(req.action), req.qty, tp_price,
                         accepted, IF accepted THEN <<>> ELSE <<"n", "o">>)
          IN  /\ orders' = Append(orders, o)
              /\ req' = [req EXCEPT
                           !.pc = IF req.payload.sl # NoneV THEN "sl" ELSE "respond",
                           !.body = IF accepted THEN [@ EXCEPT !.tp_order_id = NextOrderId]
                                    ELSE [@ EXCEPT !.tp_error = "refused"]]
    /\ UNCHANGED <<scanvars, callvars, ALLOW_ORDER_EXEC, ALLOW_AMO, access_token,
                   sessions, nexec, resp>>

\* the SL leg, a stop-loss LIMIT order one tick beyond its trigger (lines 311-334)
PlaceSl ==
    /\ req.pc = "sl"
    /\ \E accepted \in BOOLEAN :
          LET sl_trig  == tick_round(req.payload.sl)
              sl_price == tick_round(IF req.action = "BUY" THEN sl_trig - 5 ELSE sl_trig + 5)
              o == Order("sl", "regular", ExitSide(req.action), req.qty, sl_price,
                         accepted, IF accepted THEN <<>> ELSE <<"n", "o">>)
          IN  /\ orders' = Append(orders, o)
              /\ req' = [req EXCEPT
                           !.pc = "respond",
                           !.body = IF accepted THEN [@ EXCEPT !.sl_order_id = NextOrderId]
                                    ELSE [@ EXCEPT !.sl_error = "refused"]]
    /\ UNCHANGED <<scanvars, callvars, ALLOW_ORDER_EXEC, ALLOW_AMO, access_token,
                   sessions, nexec, resp>>

\* lines 337-339: resp.get(key) or the skip text, when the entry is AMO
OrSkipped(text, amo) ==
    IF amo /\ text = "" THEN "Skipped because entry is AMO" ELSE text

\* lines 336-341
Respond ==
    /\ req.pc = "respond"
    /\ resp' = Response("execute", nexec, 200,
                        [req.body EXCEPT !.tp_error = OrSkipped(@, req.queued_as_amo),
                                         !.sl_error = OrSkipped(@, req.queued_as_amo)],
                        req.payload, req.quote, req.chosen_price)
    /\ req' = NoReq
    /\ UNCHANGED <<scanvars, callvars, ALLOW_ORDER_EXEC, ALLOW_AMO, access_token,
                   sessions, nexec, orders>>

InitApp ==
    /\ ALLOW_IF_NO_GREEKS = FALSE
    /\ nreq = 0
    /\ nfo_file = NoFile
    /\ nse_file = NoFile
    /\ TOKEN_CACHE = <<>>
    /\ pc = [s \in ScanIds |-> "idle"]
    /\ out = [s \in ScanIds |-> NewOut]
    /\ loc = [s \in ScanIds |-> NewLoc]
    /\ mkt = Market("ok", <<>>, HEmpty, HShortB, FALSE, EmptyQuote, EmptyQuote, EmptyQuote)
    /\ threads = 0
    /\ gate_in = NoGateCall
    /\ gate_out = NoGate
    /\ IdleCalls
    /\ ALLOW_ORDER_EXEC \in BOOLEAN
    /\ ALLOW_AMO \in BOOLEAN
    /\ access_token = NoneV
    /\ sessions = 0
    /\ nexec = 0
    /\ req = NoReq
    /\ orders = <<>>
    /\ resp = NoResp

NextApp ==
    \/ Callback
    \/ ExecBegin
    \/ PlaceEntry
    \/ PlaceAmo
    \/ PlaceTp
    \/ PlaceSl
    \/ Respond

SpecApp == InitApp /\ [][NextApp]_vars

-----------------------------------------------------------------------------
(* The claims *)

Done(s) == pc[s] = "done"

ResultKeys == {"status", "ts", "budget", "picks", "errors", "diag"}

PickKeys == {"symbol", "tradingsymbol", "name", "type", "trade_type", "strike",
             "expiry", "ltp", "lot_size", "score", "suggested_lots", "reason",
             "tp", "sl", "entry_action", "exit_action", "iv", "delta", "gamma",
             "theta_per_day", "vega_per_volpt", "rho_per_ratept"}

PicksOf(s) == {out[s].picks[k] : k \in 1..Len(out[s].picks)}

\* C1: in every result, a LONG pick's suggested_lots * lot_size * ltp is within
\* the budget, a SHORT pick's suggested_lots is 0, and with budget 10000,
\* premium 50 and lot size 25 a LONG pick gets 8 lots
C1_SizingWithinBudget ==
    \A s \in ScanIds : \A p \in PicksOf(s) :
        /\ p.trade_type \in {"LONG", "SHORT"}
        /\ p.trade_type = "LONG" => p.suggested_lots * p.lot_size * p.ltp <= out[s].budget
        /\ p.trade_type = "SHORT" => p.suggested_lots = 0
        /\ (p.trade_type = "LONG" /\ out[s].budget = 10000 /\ p.ltp = 50 /\ p.lot_size = 25)
              => p.suggested_lots = 8

\* a returned result holds a LONG pick at premium 50, lot size 25, sized 8 lots,
\* beside a SHORT pick
C1_Witness ==
    \E s \in ScanIds : Done(s) /\ \E p, r \in PicksOf(s) :
        /\ p.trade_type = "LONG" /\ p.ltp = 50 /\ p.lot_size = 25 /\ p.suggested_lots = 8
        /\ r.trade_type = "SHORT" /\ r.ltp > 0

\* C2: run_smc_scan never raises: no exception of the provider leaves the scan,
\* and every return carries status, ts, budget, picks, errors and diag
C2_NeverRaises ==
    \A s \in ScanIds :
        /\ pc[s] # "crashed"
        /\ Done(s) => /\ DOMAIN out[s] = ResultKeys
                       /\ out[s].status \in {"ok", "error"}
                       /\ loc[s].exc # "" => out[s].status = "error"

\* a scan returned after an exception raised deep in the scoring loop, and
\* another after the instrument dump failed
C2_Witness ==
    \E s \in ScanIds :
        /\ Done(s) /\ out[s].status = "error"
        /\ loc[s].exc = "ValueError: last_price"
        /\ loc[s].calls.quote > 0

\* the rows have no expiry at all
NoExpiryIn(rows) == \A i \in 1..Len(rows) : rows[i].expiry = NoneV

\* C3: with an empty filtered instrument set or no resolvable expiry the scan
\* returns at once: status error, no picks, an error entry, no historical or
\* quote request; and every result of status error has no picks
C3_HardPrerequisite ==
    \A s \in ScanIds :
        /\ (pc[s] \notin {"idle", "load", "fetch", "wnfo_open", "wnfo_close",
                           "wnse_open", "wnse_close", "check", "except"}
             /\ loc[s].exc = ""
             /\ (Len(loc[s].nfo) = 0 \/ NoExpiryIn(loc[s].nfo)))
            => /\ Done(s)
               /\ out[s].status = "error"
               /\ out[s].picks = <<>>
               /\ Len(out[s].errors) >= 1
               /\ loc[s].calls.historical_data = 0
               /\ loc[s].calls.quote = 0
        /\ (Done(s) /\ out[s].status = "error") => out[s].picks = <<>>

\* a scan returned on rows that hold no expiry
C3_Witness ==
    \E s \in ScanIds :
        /\ Done(s) /\ Len(loc[s].nfo) > 0 /\ NoExpiryIn(loc[s].nfo)
        /\ out[s].errors = <<"No upcoming expiry">>

\* the scan ran to the candidate list and found it empty
NoCandidates(s) ==
    /\ Done(s)
    /\ "candidates" \in DOMAIN out[s].diag
    /\ out[s].diag["candidates"] = 0

\* C4: a scan that completes with zero candidates has status degraded, no
\* picks and an explanatory error entry
C4_DegradedStatus ==
    \A s \in ScanIds : NoCandidates(s) =>
        /\ out[s].status = "degraded"
        /\ out[s].picks = <<>>
        /\ Len(out[s].errors) >= 1

\* the scan got through the quote batches without an exception
Quoted(s) == Done(s) /\ loc[s].calls.quote > 0 /\ loc[s].exc = ""

\* C5: when only a subset of the candidates is quoted (or a batch fails) the
\* status is not error, and exactly the quoted candidates are picks
C5_UnquotedDropped ==
    \A s \in ScanIds : Quoted(s) =>
        /\ out[s].status # "error"
        /\ {p.symbol : p \in PicksOf(s)} = DOMAIN loc[s].quotes

\* _apply_greeks_gates has returned
Called == gate_out # NoGate

\* the call's IV and Greeks are there, and the premium is a price
GreeksKnown ==
    /\ gate_in.iv # NoneV
    /\ gate_in.greeks.delta # NoneV
    /\ gate_in.greeks.gamma # NoneV
    /\ gate_in.ltp > 0

\* the four long gates of the call, each as the claim words it
GatesViolated ==
    LET d == IF gate_in.side = "PE" THEN Abs(gate_in.greeks.delta) ELSE gate_in.greeks.delta
        dmin == IF gate_in.side = "PE" THEN DELTA_MIN_PUT ELSE DELTA_MIN_CALL
        dmax == IF gate_in.side = "PE" THEN DELTA_MAX_PUT ELSE DELTA_MAX_CALL
    IN  (IF gate_in.iv < IV_MIN_LONG \/ gate_in.iv > IV_MAX_LONG THEN {"IV"} ELSE {})
        \cup (IF d < dmin \/ d > dmax THEN {"DELTA"} ELSE {})
        \cup (IF gate_in.greeks.gamma > GAMMA_MAX THEN {"GAMMA"} ELSE {})
        \cup (IF 100 * Abs(gate_in.greeks.theta) > THETA_MAX_PCT * gate_in.ltp * 100
              THEN {"THETA"} ELSE {})

\* C6: a base LONG with IV and Greeks known stays LONG, passed, exactly when all
\* four gates hold; otherwise it is SHORT, not passed, and the rationale lists
\* every failing gate
C6_LongGates ==
    (Called /\ gate_in.base = "LONG" /\ GreeksKnown) =>
        IF GatesViolated = {}
        THEN gate_out.final = "LONG" /\ gate_out.passed /\ gate_out.fails = <<>>
        ELSE /\ gate_out.final = "SHORT"
             /\ ~gate_out.passed
             /\ gate_out.note = "Greeks fail"
             /\ Range(gate_out.fails) = GatesViolated
             /\ Len(gate_out.fails) = Cardinality(GatesViolated)

\* a base LONG that fails all four gates was demoted with all four listed
C6_Witness ==
    /\ Called /\ gate_in.base = "LONG" /\ GreeksKnown
    /\ gate_out.final = "SHORT"
    /\ gate_out.fails = <<"IV", "DELTA", "GAMMA", "THETA">>

\* C7: shorts are never upgraded: a final LONG had a LONG base; a base SHORT
\* stays SHORT on every input and under both settings of ALLOW_IF_NO_GREEKS,
\* and one that fails the short gates is flagged weak and not passed
C7_ShortsNeverUpgraded ==
    Called =>
        /\ gate_out.final = "LONG" => gate_in.base = "LONG"
        /\ gate_in.base = "SHORT" => gate_out.final = "SHORT"
        /\ (/\ gate_in.base = "SHORT"
            /\ gate_in.iv # NoneV
            /\ gate_in.greeks.delta # NoneV
            /\ \/ gate_in.iv < IV_MIN_SHORT
               \/ (gate_in.greeks.gamma # NoneV /\ gate_in.greeks.gamma > GAMMA_MAX))
           => (gate_out.note = "Weak short (Greeks fail)" /\ ~gate_out.passed)

\* a base SHORT of low IV came back SHORT and weak, with missing Greeks allowed
C7_Witness ==
    /\ Called /\ gate_in.base = "SHORT" /\ ALLOW_IF_NO_GREEKS
    /\ gate_in.iv = 27 /\ gate_in.greeks.delta # NoneV
    /\ gate_out.final = "SHORT" /\ gate_out.note = "Weak short (Greeks fail)"

\* C8: a candidate whose IV is unresolved gets the ALLOW_IF_NO_GREEKS policy:
\* allowed, the base type unchanged and passed; else SHORT and not passed; both
\* with a Greeks-missing note, and a well-formed pick is emitted for it
C8_MissingGreeksPolicy ==
    \A s \in ScanIds :
        /\ pc[s] # "crashed"
        /\ \A k \in 1..Len(loc[s].scored) :
              LET p == loc[s].scored[k]
                  c == loc[s].candidates[k]
              IN  p.iv = NoneV =>
                    /\ DOMAIN p = PickKeys
                    /\ p.symbol = c.sym
                    /\ p.delta = NoneV
                    /\ IF ALLOW_IF_NO_GREEKS
                       THEN /\ p.trade_type = c.base_type
                            /\ p.reason.gk = "Greeks missing (allowed)"
                       ELSE /\ p.trade_type = "SHORT"
                            /\ p.reason.gk = "Greeks missing (blocked long)"
                    /\ p.entry_action = (IF p.trade_type = "LONG" THEN "BUY" ELSE "SELL")
                    /\ k = Len(loc[s].scored) =>
                          /\ loc[s].gate.passed = ALLOW_IF_NO_GREEKS
                          /\ loc[s].gate.final = p.trade_type
                    /\ (Done(s) /\ out[s].status = "ok") => p \in PicksOf(s)

\* a quoted contract whose IV did not resolve, LONG by TA, is returned as a
\* SHORT pick under the blocking policy
C8_Witness ==
    \E s \in ScanIds : Done(s) /\ ~ALLOW_IF_NO_GREEKS /\
        \E k \in 1..Len(loc[s].scored) :
            /\ loc[s].scored[k].iv = NoneV
            /\ loc[s].scored[k].ltp > 0
            /\ loc[s].candidates[k].base_type = "LONG"
            /\ loc[s].scored[k] \in PicksOf(s)
            /\ loc[s].scored[k].trade_type = "SHORT"

\* the symbols the complete token map holds
MappedSyms ==
    {mkt.nse[i].tradingsymbol : i \in {j \in 1..Len(mkt.nse) :
                                          mkt.nse[j].tradingsymbol \in Range(NIFTY50)}}

\* C9: concurrent scans are independent: scans against the same provider data
\* return the same result, and no scan reads a token map (or an instrument file)
\* that another scan has only partly written
C9_ScansIndependent ==
    \A s, t \in ScanIds :
        /\ (Done(s) /\ Done(t)) => out[s] = out[t]
        /\ pc[s] = "ta" => DOMAIN TOKEN_CACHE = MappedSyms
        /\ pc[s] = "check" =>
              loc[s].nfo = slim_rows_nfo(mkt.nfo, NIFTY50)

\* the provider has too little history of the underlying for TA
Insufficient(sym) ==
    LET i == CHOOSE j \in 1..Len(mkt.nse) : mkt.nse[j].tradingsymbol = sym
        h == mkt.hist[mkt.nse[i].instrument_token]
    IN  h.kind = "raise" \/ (h.kind = "bars" /\ h.n < 15)

\* the scan has built its candidate list
Built(s) == "candidates" \in DOMAIN out[s].diag

\* the sides of the underlying listed at the chosen expiry with a strike
ListedSides(s, sym) ==
    {loc[s].base[i].instrument_type :
        i \in {j \in 1..Len(loc[s].base) :
                 loc[s].base[j].name = sym /\ loc[s].base[j].strike # NoneV}}

CandidateSides(s, sym) ==
    {loc[s].candidates[i].side :
        i \in {j \in 1..Len(loc[s].candidates) : loc[s].candidates[j].nm = sym}}

HistoryMissing(s) ==
    \E sym \in Range(NIFTY50) \cap MappedSyms : Built(s) /\ Insufficient(sym)

\* some candidate of the scan got no quote
QuoteMissing(s) ==
    \E k \in 1..Len(loc[s].candidates) : loc[s].candidates[k].sym \notin DOMAIN loc[s].quotes

\* some quoted, priced candidate's implied volatility did not resolve
IvUnresolved(s) ==
    \E k \in 1..Len(loc[s].scored) :
        loc[s].scored[k].ltp > 0 /\ loc[s].scored[k].iv = NoneV

\* C11: a scan that met a partial-data failure (a quote batch that failed or
\* left candidates unquoted, an underlying without usable history, a candidate
\* whose implied volatility did not resolve) ran to completion, its status is
\* not error and its errors list holds at least one entry
C11_PartialFailuresRecorded ==
    \A s \in ScanIds :
        (Done(s) /\ loc[s].exc = ""
           /\ (HistoryMissing(s) \/ (Quoted(s) /\ (QuoteMissing(s) \/ IvUnresolved(s))))) =>
            /\ out[s].status # "error"
            /\ Len(out[s].errors) >= 1

\* C12: for every non-empty strike list and every reference price, a missing
\* one included, the ring computed for the underlying holds the ATM strike,
\* which is one of the listed strikes
C12_RingContainsAtm ==
    ring_call.done =>
        /\ ring_call.atm \in Range(ring_call.strikes)
        /\ ring_call.atm \in ring_call.ring
        /\ ring_call.ring \subseteq Range(ring_call.strikes)

\* the ring of a long strike list cut at both ends around the median strike,
\* chosen for want of a price
C12_Witness ==
    /\ ring_call.done
    /\ ~Truthy(ring_call.px)
    /\ Cardinality(ring_call.ring) = 2 * RING_STRIKES + 1
    /\ ring_call.strikes[1] \notin ring_call.ring
    /\ ring_call.strikes[Len(ring_call.strikes)] \notin ring_call.ring
    /\ ring_call.atm \in ring_call.ring

\* C13: the picks are ordered by non-increasing score, are at most 50, are
\* scored candidates each taken once, and no scored candidate left out scores
\* strictly more than one that is in
C13_TopPicksSorted ==
    rank_call.done =>
        LET picks  == rank_call.picks
            scored == rank_call.scored
            left   == Range(scored) \ Range(picks)
        IN  /\ \A i, j \in 1..Len(picks) : i < j => picks[i].score >= picks[j].score
            /\ Len(picks) <= MAX_PICKS
            /\ Len(picks) = Min2(Len(scored), MAX_PICKS)
            /\ Range(picks) \subseteq Range(scored)
            /\ \A i, j \in 1..Len(picks) : picks[i] = picks[j] => i = j
            /\ \A x \in left : \A p \in Range(picks) : x.score <= p.score

\* more than 50 scored candidates of rising score: 50 picks, the first scored
\* candidate left out for a later, better one
C13_Witness ==
    /\ rank_call.done
    /\ Len(rank_call.scored) > MAX_PICKS
    /\ Len(rank_call.picks) = MAX_PICKS
    /\ rank_call.scored[1] \notin Range(rank_call.picks)
    /\ rank_call.picks[1] = rank_call.scored[Len(rank_call.scored)]
    /\ rank_call.picks[1].score > rank_call.scored[1].score

\* the price is not between the model prices at lo and at the expanded hi
NotStraddled(c) ==
    Sgn(PriceError(c, IV_LO)) * Sgn(PriceError(c, c.hi)) > 0

\* C14: implied_vol returns None, never 0 or another number, when price, S, K
\* or T is not positive or when the price is not straddled by the model prices
\* at lo and at the expanded hi; the expansion takes at most 10 passes and the
\* bisection at most 60; a number returned lies in the final bracket [lo, hi]
C14_UnresolvedOrBracketed ==
    LET c == iv_call
    IN  /\ c.ne <= IV_EXPAND_TRIES
        /\ c.nb <= IV_MAX_ITER
        /\ c.pc \in {"bracket", "bisect", "done"} /\ ~IvGuardFails(c) =>
              c.lo = IV_LO /\ c.hi >= IV_HI /\ 2 * c.hi <= 3 * IV_HI_CAP
        /\ c.pc = "done" =>
              /\ IvGuardFails(c) => c.ret = NoneV
              /\ (~IvGuardFails(c) /\ NotStraddled(c)) => c.ret = NoneV
              /\ c.ret # NoneV => c.ret # 0 /\ c.lo <= c.ret /\ c.ret <= c.hi

\* a price above every model price up to the expanded upper bound: two
\* expansion passes, then None
C14_Witness ==
    /\ iv_call.pc = "done"
    /\ ~IvGuardFails(iv_call)
    /\ iv_call.hi > IV_HI_CAP
    /\ iv_call.ne = 2
    /\ NotStraddled(iv_call)
    /\ iv_call.ret = NoneV

GreekKeys == {"delta", "gamma", "theta_per_day", "vega_per_volpt", "rho_per_ratept"}

AllPresent(p) == p.iv # NoneV /\ \A k \in GreekKeys : p[k] # NoneV

AllAbsent(p) == p.iv = NoneV /\ \A k \in GreekKeys : p[k] = NoneV

\* the inputs of the k-th scored candidate of scan s: spot, strike, premium and
\* the solver's answer for its quote
NoGreeksInputs(s, k) ==
    LET c == loc[s].candidates[k]
        q == QuoteOf(loc[s].quotes, c.sym)
    IN  \/ ~Truthy(q.last_price) \/ q.last_price <= 0
        \/ loc[s].ta[c.nm].px <= 0
        \/ ~Truthy(c.meta.strike) \/ c.meta.strike <= 0
        \/ q.iv = NoneV

\* C16: in every pick, iv and the five Greeks are all present or all absent,
\* and they are all absent when the spot, the strike or the premium is not
\* positive or the IV solver returned unresolved
C16_GreeksAllOrNone ==
    \A s \in ScanIds :
        /\ \A p \in PicksOf(s) : AllPresent(p) \/ AllAbsent(p)
        /\ \A k \in 1..Len(loc[s].scored) :
              /\ AllPresent(loc[s].scored[k]) \/ AllAbsent(loc[s].scored[k])
              /\ NoGreeksInputs(s, k) => AllAbsent(loc[s].scored[k])

\* a result with a pick whose IV and Greeks are all there and a quoted, priced
\* pick whose IV did not resolve and whose Greeks are all absent
C16_Witness ==
    \E s \in ScanIds : Done(s) /\
        \E p, r \in PicksOf(s) :
            /\ AllPresent(p)
            /\ AllAbsent(r) /\ r.ltp > 0

\* the latest /api/execute request has been answered, and the answer is at hand
Answered == req.pc = "idle" /\ resp.route = "execute" /\ resp.n = nexec

AmoOrders == {k \in 1..Len(orders) : orders[k].variety = "amo"}

NoLimitPrice ==
    /\ Upper(resp.payload.order_type) # "LIMIT" \/ resp.payload.price = NoneV
    /\ resp.quote.ltp = NoneV
    /\ ~Truthy(resp.quote.best_buy) /\ ~Truthy(resp.quote.best_sell)

\* C17: every place_order call is made with the ALLOW_ORDER_EXEC switch on and
\* under an access token that a completed /callback has set; with the switch
\* off the request is answered 403, without a token 401, and no order is
\* placed either when the resolved action is not BUY/SELL, the quantity is not
\* positive or no limit price can be derived
C17_OrdersNeedSwitchAndLogin ==
    /\ \A k \in 1..Len(orders) :
          /\ orders[k].switch
          /\ Truthy(orders[k].token)
          /\ orders[k].logins >= 1
          /\ orders[k].side \in {"BUY", "SELL"}
          /\ orders[k].qty > 0
          /\ orders[k].price # NoneV
    /\ orders # <<>> => ALLOW_ORDER_EXEC /\ Truthy(access_token) /\ sessions >= 1
    /\ Answered =>
          /\ ~ALLOW_ORDER_EXEC => resp.code = 403 /\ orders = <<>>
          /\ (ALLOW_ORDER_EXEC /\ ~Truthy(access_token)) => resp.code = 401 /\ orders = <<>>
          /\ ( \/ ResolvedAction(resp.payload) \notin {"BUY", "SELL"}
               \/ resp.payload.quantity <= 0
               \/ NoLimitPrice ) => orders = <<>> /\ resp.code # 200

\* the second request, after a login, is answered 200 with its orders placed
\* under the token of that login
C17_Witness ==
    /\ Answered
    /\ nexec = 2
    /\ resp.code = 200
    /\ orders # <<>>
    /\ orders[1].token = access_token
    /\ orders[1].logins >= 1

=============================================================================
